---- MODULE Spec2Model ----
(***************************************************************************)
(* Model of the Seymour-vertex graph editor of                             *)
(* src/interactive_graph_editor.py: the Python classifier                  *)
(* (analyze_seymour_vertices / get_seymour_vertices on a networkx          *)
(* DiGraph), the loader create_interactive_graph_editor, and the canvas    *)
(* script's event handlers (mousedown, mousemove, mouseup, dblclick,       *)
(* contextmenu, toggleMoveMode, graphDataUpdate).                          *)
(*                                                                         *)
(* A canvas node object is a record [id, x, y, is_seymour]; graphData.nodes*)
(* and graphData.edges are sequences, in the order the arrays hold them.   *)
(* A JavaScript object reference (startDragNode) is modelled by the index  *)
(* of the object in graphData.nodes while the object is in that array, and *)
(* by a detached copy of its id once the array no longer holds it.         *)
(***************************************************************************)
EXTENDS Integers, Sequences, FiniteSets, TLC

(***************************************************************************)
(* Bounds of the model.                                                    *)
(***************************************************************************)
\* The editor specification: nodes on the canvas, edges, largest node id.
MaxNodes == 2

MaxEdges == 2

MaxId == 1

\* The connect-gesture specification: loaded nodes and edges.
ConnectNodes == 3

MaxConnectEdges == 3

\* The load specification: ids 0..PyNodes-1 and edge lists up to PyEdges long.
PyNodes == 3

PyEdges == 3

\* The canvas-event specification: nodes, edges, largest node id.
MaxCanvasNodes == 4

MaxCanvasEdges == 4

MaxCanvasId == 3

(***************************************************************************)
(* Program constants.                                                      *)
(***************************************************************************)
nodeRadius == 25

EDGE_TOLERANCE == 10

DRAG_THRESHOLD == 10

GRID_X0 == 50

GRID_DX == 150

GRID_COLS == 5

GRID_Y0 == 50

GRID_DY == 120

\* JavaScript's undefined, as idMapping[id] yields it for an id that is no key.
Undef == -1

(***************************************************************************)
(* Small helpers on sequences.                                             *)
(***************************************************************************)
Range(s) == {s[i] : i \in DOMAIN s}

\* The sequence s without its i-th element (Array.filter on object identity).
RemoveAt(s, i) == [j \in 1..(Len(s) - 1) |-> IF j < i THEN s[j] ELSE s[j + 1]]

\* The least index of the set I of matching indices, 0 when none (Array.find).
FirstIndex(I) == IF I = {} THEN 0 ELSE CHOOSE i \in I : \A j \in I : i <= j

Pt(px, py) == [x |-> px, y |-> py]

Edge(a, b) == [from |-> a, to |-> b]

(***************************************************************************)
(* The Python classifier on a networkx DiGraph.  A DiGraph keeps its nodes *)
(* in insertion order and one successor set per node.                      *)
(***************************************************************************)
RECURSIVE AddNodesFrom(_, _)
\* G.add_nodes_from(list): append each node not yet in the graph.
AddNodesFrom(order, list) ==
    IF list = << >> THEN order
    ELSE AddNodesFrom(IF Head(list) \in Range(order) THEN order
                      ELSE Append(order, Head(list)), Tail(list))

RECURSIVE AddEdgesFrom(_, _)
\* G.add_edges_from(list): each edge adds its source, then its target.
AddEdgesFrom(order, list) ==
    IF list = << >> THEN order
    ELSE AddEdgesFrom(AddNodesFrom(order, <<Head(list)[1], Head(list)[2]>>),
                      Tail(list))

\* The DiGraph the loader builds: edges first, then the vertex list.
DiGraphOf(nodeList, edgeList) ==
    [order |-> AddNodesFrom(AddEdgesFrom(<< >>, edgeList), nodeList),
     arcs  |-> Range(edgeList)]

\* G.successors(v)
Successors(G, v) == {a[2] : a \in {b \in G.arcs : b[1] = v}}

first_neighbors(G, v) == Successors(G, v)

raw_second_neighbors(G, v) ==
    UNION {Successors(G, u) : u \in first_neighbors(G, v)}

MutSecondKeepFirst(G, v) == raw_second_neighbors(G, v) \ {v}

MutSecondKeepSelf(G, v) == raw_second_neighbors(G, v) \ first_neighbors(G, v)

second_neighbors(G, v) ==
    (raw_second_neighbors(G, v) \ first_neighbors(G, v)) \ {v}

satisfies_property(G, v) ==
    Cardinality(second_neighbors(G, v)) >= Cardinality(first_neighbors(G, v))

\* The analysis with ratio's divisor taken as len(first_neighbors) itself.
MutAnalyzeNoMax(G) ==
    [v \in Range(G.order) |->
        [out_degree            |-> Cardinality(first_neighbors(G, v)),
         first_neighbors       |-> first_neighbors(G, v),
         second_neighbors      |-> second_neighbors(G, v),
         second_neighbor_count |-> Cardinality(second_neighbors(G, v)),
         satisfies_property    |-> satisfies_property(G, v),
         ratio_num             |-> Cardinality(second_neighbors(G, v)),
         ratio_den             |-> Cardinality(first_neighbors(G, v))]]

\* analysis[v] for every node of G; ratio is kept as the pair it divides.
analyze_seymour_vertices(G) ==
    [v \in Range(G.order) |->
        [out_degree            |-> Cardinality(first_neighbors(G, v)),
         first_neighbors       |-> first_neighbors(G, v),
         second_neighbors      |-> second_neighbors(G, v),
         second_neighbor_count |-> Cardinality(second_neighbors(G, v)),
         satisfies_property    |-> satisfies_property(G, v),
         ratio_num             |-> Cardinality(second_neighbors(G, v)),
         ratio_den             |-> IF Cardinality(first_neighbors(G, v)) > 1
                                   THEN Cardinality(first_neighbors(G, v))
                                   ELSE 1]]

MutSeymourAll(G) == G.order

\* [v for v, data in analysis.items() if data['satisfies_property']]:
\* the dict iterates in the insertion order of G's nodes.
get_seymour_vertices(G) ==
    SelectSeq(G.order, LAMBDA v : analyze_seymour_vertices(G)[v].satisfies_property)

(***************************************************************************)
(* The loader, create_interactive_graph_editor: node objects on a row-major*)
(* grid, labelled by the Python classifier; edges copied in order.         *)
(***************************************************************************)
GridNode(i, node, seymour) ==
    [id |-> node,
     x  |-> GRID_X0 + (i % GRID_COLS) * GRID_DX,
     y  |-> GRID_Y0 + (i \div GRID_COLS) * GRID_DY,
     is_seymour |-> node \in Range(seymour)]

\* graph_json for graph_data = [nodes, edges, move_mode].
create_interactive_graph_editor(graph_data) ==
    LET seymour == get_seymour_vertices(DiGraphOf(graph_data.nodes, graph_data.edges))
    IN  [nodes |-> [k \in DOMAIN graph_data.nodes |->
                        GridNode(k - 1, graph_data.nodes[k], seymour)],
         edges |-> [k \in DOMAIN graph_data.edges |->
                        Edge(graph_data.edges[k][1], graph_data.edges[k][2])],
         move_mode |-> graph_data.move_mode]

(***************************************************************************)
(* The canvas script: pure helpers over (graphData.nodes, graphData.edges).*)
(***************************************************************************)
Sq(a) == a * a

\* Beyond this cross product no point is within the edge tolerance of a
\* segment that fits the canvas; it keeps the products within 32 bits.
CROSS_CAP == 10000

\* Math.sqrt((x - node.x) ** 2 + (y - node.y) ** 2) <= nodeRadius
HitsNode(n, px, py) == Sq(px - n.x) + Sq(py - n.y) <= Sq(nodeRadius)

\* getNodeAt: index in ns of the first node hit, 0 for null.
getNodeAt(ns, px, py) == FirstIndex({i \in DOMAIN ns : HitsNode(ns[i], px, py)})

(***************************************************************************)
(* JavaScript Number arithmetic as distanceToLine uses it: IEEE 754        *)
(* binary64, every operation rounded to nearest, ties to even.  A natural  *)
(* number is a sequence of bits, least significant first.                  *)
(***************************************************************************)
BitAt(a, i) == IF i \in DOMAIN a THEN a[i] ELSE 0

\* a without its high zero bits.
Trim(a) ==
    LET set == {i \in DOMAIN a : a[i] = 1}
    IN  IF set = {} THEN << >>
        ELSE SubSeq(a, 1, CHOOSE i \in set : \A j \in set : j <= i)

\* Bits of the integers the canvas arithmetic starts from.
INT_BITS == 30

BitsOf(n) == Trim([i \in 1..INT_BITS |-> (n \div 2^(i - 1)) % 2])

Shifted(a, n) == [i \in 1..n |-> 0] \o a

\* The carry into bit i of a + b.
Carry(a, b, i) ==
    \E j \in 1..(i - 1) :
        /\ BitAt(a, j) + BitAt(b, j) = 2
        /\ \A l \in (j + 1)..(i - 1) : BitAt(a, l) + BitAt(b, l) >= 1

BAdd(a, b) ==
    LET n == (IF Len(a) > Len(b) THEN Len(a) ELSE Len(b)) + 1
    IN  Trim([i \in 1..n |->
                (BitAt(a, i) + BitAt(b, i) + IF Carry(a, b, i) THEN 1 ELSE 0) % 2])

\* The borrow from bit i of a - b.
Borrow(a, b, i) ==
    \E j \in 1..(i - 1) :
        /\ BitAt(a, j) < BitAt(b, j)
        /\ \A l \in (j + 1)..(i - 1) : BitAt(a, l) <= BitAt(b, l)

\* a - b for a >= b.
BSub(a, b) ==
    Trim([i \in 1..Len(a) |->
            (2 + BitAt(a, i) - BitAt(b, i) - IF Borrow(a, b, i) THEN 1 ELSE 0) % 2])

BLE(a, b) ==
    LET ta == Trim(a)
        tb == Trim(b)
        differ == {i \in DOMAIN ta : BitAt(ta, i) # BitAt(tb, i)}
    IN  IF Len(ta) # Len(tb) THEN Len(ta) < Len(tb)
        ELSE \/ differ = {}
             \/ LET top == CHOOSE i \in differ : \A j \in differ : j <= i
                IN  ta[top] < tb[top]

\* cols[k] counts the unit products of weight 2^(k-1); Plane(j) holds bit j of
\* every count and the product is the sum of the planes, each at its place.
BMul(a, b) ==
    LET cols == [k \in 1..(Len(a) + Len(b)) |->
                    Cardinality({i \in DOMAIN a : a[i] = 1 /\ BitAt(b, k + 1 - i) = 1})]
        Plane(j) == Shifted([k \in DOMAIN cols |-> (cols[k] \div 2^j) % 2], j)
    IN  BAdd(BAdd(BAdd(Plane(0), Plane(1)), BAdd(Plane(2), Plane(3))),
             BAdd(Plane(4), Plane(5)))

\* Bits of a binary64 significand.
SIGNIFICAND == 53

\* Fraction bits the long division of dot / lenSq produces before rounding.
QUOTIENT_BITS == 80

\* A Number is (-1)^neg * m * 2^e with m a bit sequence.  RoundToDouble keeps
\* the SIGNIFICAND leading bits of m, rounding to nearest, ties to even.
RoundToDouble(d) ==
    LET m == Trim(d.m)
        k == Len(m) - SIGNIFICAND
    IN  IF k <= 0 THEN [neg |-> d.neg, m |-> m, e |-> d.e]
        ELSE LET kept == SubSeq(m, k + 1, Len(m))
                 half == m[k] = 1
                 sticky == \E i \in 1..(k - 1) : m[i] = 1
                 up == half /\ (sticky \/ kept[1] = 1)
             IN  [neg |-> d.neg,
                  m |-> IF up THEN BAdd(kept, <<1>>) ELSE kept,
                  e |-> d.e + k]

DOfInt(n) == [neg |-> n < 0, m |-> BitsOf(IF n < 0 THEN -n ELSE n), e |-> 0]

DNeg(p) == [p EXCEPT !.neg = ~p.neg]

\* p + q before rounding.
ExactSum(p, q) ==
    LET e == IF p.e < q.e THEN p.e ELSE q.e
        a == Shifted(p.m, p.e - e)
        b == Shifted(q.m, q.e - e)
    IN  IF p.neg = q.neg THEN [neg |-> p.neg, m |-> BAdd(a, b), e |-> e]
        ELSE IF BLE(b, a) THEN [neg |-> p.neg, m |-> BSub(a, b), e |-> e]
        ELSE [neg |-> q.neg, m |-> BSub(b, a), e |-> e]

DAdd(p, q) == RoundToDouble(ExactSum(p, q))

DSub(p, q) == DAdd(p, DNeg(q))

ExactProduct(p, q) == [neg |-> p.neg # q.neg, m |-> BMul(p.m, q.m), e |-> p.e + q.e]

DMul(p, q) == RoundToDouble(ExactProduct(p, q))

\* Quotient bits the long division produces in one step.
CHUNK == 10

\* n more steps of the long division of r / d for 0 <= r < d, under a lowest
\* bit that is set when the division leaves a remainder.
RECURSIVE QuotientBits(_, _, _)
QuotientBits(r, d, n) ==
    IF n = 0 THEN <<IF r = 0 THEN 0 ELSE 1>>
    ELSE LET q == (r * 2^CHUNK) \div d
         IN  QuotientBits((r * 2^CHUNK) % d, d, n - 1)
                 \o [i \in 1..CHUNK |-> (q \div 2^(i - 1)) % 2]

\* a / b for integers 0 <= a, 0 < b.
DDiv(a, b) ==
    RoundToDouble([neg |-> FALSE,
                   m |-> QuotientBits(a % b, b, QUOTIENT_BITS \div CHUNK) \o BitsOf(a \div b),
                   e |-> -(QUOTIENT_BITS + 1)])

\* Math.sqrt(s) <= tol for a Number s >= 0 and an integer tol > 0.  Math.sqrt
\* rounds the root to nearest, so the test holds up to the midpoint of tol and
\* the next Number above it, tol + 2^(E - SIGNIFICAND) with 2^E <= tol < 2^(E+1).
SqrtLE(s, tol) ==
    LET E == Len(BitsOf(tol)) - 1
        mid == [neg |-> FALSE,
                m |-> BAdd(Shifted(BitsOf(tol), SIGNIFICAND - E), <<1>>),
                e |-> E - SIGNIFICAND]
        bound == ExactProduct(mid, mid)
        diff == ExactSum(bound, DNeg(s))
    IN  ~diff.neg \/ Trim(diff.m) = << >>

\* The else branch of distanceToLine (0 <= param <= 1) followed by dist <= tol.
FootWithin(px, py, x1, y1, x2, y2, tol) ==
    LET C == x2 - x1
        D == y2 - y1
        dot == (px - x1) * C + (py - y1) * D
        lenSq == C * C + D * D
        param == DDiv(dot, lenSq)
        xx == DAdd(DOfInt(x1), DMul(param, DOfInt(C)))
        yy == DAdd(DOfInt(y1), DMul(param, DOfInt(D)))
        dx == DSub(DOfInt(px), xx)
        dy == DSub(DOfInt(py), yy)
    IN  SqrtLE(DAdd(DMul(dx, dx), DMul(dy, dy)), tol)

\* distanceToLine(x, y, x1, y1, x2, y2) <= tol.  param < 0 is dot < 0 and
\* param > 1 is dot > lenSq, and there the distance is the root of an integer.
\* Between them the exact squared distance to the foot of the perpendicular is
\* (A*D - B*C)^2 / lenSq, which is tol^2 or at least 1/lenSq away from it, and
\* the rounding errors of the computed distance are far smaller: they decide
\* the comparison only when the exact distance is tol, where FootWithin
\* computes what the code computes.  On the canvas lenSq < 1000000, so a
\* cross product beyond CROSS_CAP is farther than tol.
distanceToLineLE(px, py, x1, y1, x2, y2, tol) ==
    LET A == px - x1
        B == py - y1
        C == x2 - x1
        D == y2 - y1
        dot == A * C + B * D
        lenSq == C * C + D * D
        cross == A * D - B * C
    IN  IF lenSq = 0 THEN A * A + B * B <= tol * tol
        ELSE IF dot < 0 THEN A * A + B * B <= tol * tol
        ELSE IF dot > lenSq THEN Sq(px - x2) + Sq(py - y2) <= tol * tol
        ELSE /\ cross <= CROSS_CAP
             /\ cross >= -CROSS_CAP
             /\ IF cross * cross = tol * tol * lenSq
                THEN FootWithin(px, py, x1, y1, x2, y2, tol)
                ELSE cross * cross < tol * tol * lenSq

\* graphData.nodes.find(n => n.id === id): index of the first such node, 0 if none.
FindNode(ns, id) == FirstIndex({i \in DOMAIN ns : ns[i].id = id})

HitsEdge(ns, e, px, py) ==
    LET f == FindNode(ns, e.from)
        t == FindNode(ns, e.to)
    IN  /\ f # 0
        /\ t # 0
        /\ distanceToLineLE(px, py, ns[f].x, ns[f].y, ns[t].x, ns[t].y, EDGE_TOLERANCE)

\* getEdgeAt: index in es of the first edge hit, 0 for null.
getEdgeAt(ns, es, px, py) == FirstIndex({i \in DOMAIN es : HitsEdge(ns, es[i], px, py)})

\* firstNeighbors = outEdges.map(e => e.to): an array, one entry per out-edge.
firstNeighbors(es, id) ==
    LET outEdges == SelectSeq(es, LAMBDA e : e.from = id)
    IN  [k \in DOMAIN outEdges |-> outEdges[k].to]

\* secondNeighbors: the distinct edge.to of the out-edges of the first
\* neighbours that are neither node.id nor a first neighbour.
secondNeighbors(es, id) ==
    {e.to : e \in {d \in Range(es) :
                      /\ d.from \in Range(firstNeighbors(es, id))
                      /\ d.to # id
                      /\ d.to \notin Range(firstNeighbors(es, id))}}

MutIsSeymourStrict(es, id) ==
    Cardinality(secondNeighbors(es, id)) > Len(firstNeighbors(es, id))

MutIsSeymourReversed(es, id) ==
    Cardinality(secondNeighbors(es, id)) <= Len(firstNeighbors(es, id))

is_seymour(es, id) ==
    Cardinality(secondNeighbors(es, id)) >= Len(firstNeighbors(es, id))

MutKeepLabels(ns, es) == ns

\* updateSeymourStatus: every node relabelled from the current edges.
updateSeymourStatus(ns, es) ==
    [k \in DOMAIN ns |-> [ns[k] EXCEPT !.is_seymour = is_seymour(es, ns[k].id)]]

MutRankFromTop(ns, id) ==
    IF \E k \in DOMAIN ns : ns[k].id = id
    THEN Cardinality({k \in DOMAIN ns : ns[k].id >= id}) - 1
    ELSE Undef

\* idMapping of renumberNodes: sortedNodes.forEach((node, index) => ...), a
\* later node of the same id overwriting an earlier one; Undef for no key.
idMapping(ns, id) ==
    IF \E k \in DOMAIN ns : ns[k].id = id
    THEN Cardinality({k \in DOMAIN ns : ns[k].id <= id}) - 1
    ELSE Undef

\* renumberNodes: node ids and edge endpoints rewritten through idMapping.
renumberNodesOf(ns) == [k \in DOMAIN ns |-> [ns[k] EXCEPT !.id = idMapping(ns, ns[k].id)]]

renumberEdgesOf(ns, es) ==
    [k \in DOMAIN es |-> Edge(idMapping(ns, es[k].from), idMapping(ns, es[k].to))]

MutWinOnEmpty(ns) == Cardinality({k \in DOMAIN ns : ns[k].is_seymour}) = 0

\* checkForWin: no node labelled is_seymour and at least one node.
checkForWin(ns) ==
    /\ Cardinality({k \in DOMAIN ns : ns[k].is_seymour}) = 0
    /\ Len(ns) > 0

MutUpdateWithoutEdges(ns, es) == [nodes |-> [k \in DOMAIN ns |-> ns[k].id], edges |-> << >>]

\* The detail of the graphUpdate event of sendDataToStreamlit.
graphUpdate(ns, es) ==
    [nodes |-> [k \in DOMAIN ns |-> ns[k].id],
     edges |-> [k \in DOMAIN es |-> <<es[k].from, es[k].to>>]]

(***************************************************************************)
(* State.                                                                  *)
(***************************************************************************)
VARIABLES
    graph_data,      \* what the Python side was given: [nodes, edges, move_mode]
    analysis,        \* analyze_seymour_vertices(G) of the load
    seymour_vertices,\* get_seymour_vertices(G) of the load
    phase,           \* "python": loader not yet run; "json": graph_json built;
                     \* "canvas": the script has run its initial render
    nodes,           \* graphData.nodes
    edges,           \* graphData.edges
    moveMode,        \* the mode flag
    isDragging,
    edgeMode,        \* the mode a drag started in: TRUE for connect
    startDragNode,   \* [kind: "null" | "live" | "detached", idx, id]
    dragStart,       \* (dragStartX, dragStartY)
    rclick,          \* a right button press whose contextmenu is still due
    sent,            \* graphUpdate events of the last handler, in order
    win              \* checkForWin returned true in the last handler

vars == <<graph_data, analysis, seymour_vertices, phase, nodes, edges, moveMode, isDragging,
          edgeMode, startDragNode, dragStart, rclick, sent, win>>

pyVars == <<graph_data, analysis, seymour_vertices, phase>>

NullNode == [kind |-> "null", idx |-> 0, id |-> 0]

LiveNode(i) == [kind |-> "live", idx |-> i, id |-> 0]

DetachedNode(id) == [kind |-> "detached", idx |-> 0, id |-> id]

NoRClick == [down |-> FALSE, pos |-> Pt(0, 0), nodes0 |-> << >>, edges0 |-> << >>]

\* startDragNode.id: a live object's id is the one graphData.nodes shows.
StartId == IF startDragNode.kind = "live" THEN nodes[startDragNode.idx].id
           ELSE startDragNode.id

\* The reference after graphData.nodes lost its i-th object.
RefAfterRemove(ref, ns, i) ==
    IF ref.kind # "live" THEN ref
    ELSE IF ref.idx = i THEN DetachedNode(ns[i].id)
    ELSE IF ref.idx > i THEN LiveNode(ref.idx - 1)
    ELSE ref

\* The reference after graphData was replaced by a new object.
RefAfterReplace(ref, ns) ==
    IF ref.kind = "live" THEN DetachedNode(ns[ref.idx].id) ELSE ref

(***************************************************************************)
(* Inputs: pointer positions and loaded graphs.                            *)
(***************************************************************************)
\* The grid place of the i-th loaded node (i from 0), as GridNode sets it.
GridPoint(i) == Pt(GridNode(i, i, << >>).x, GridNode(i, i, << >>).y)

\* The midpoint of the first two grid places: on the segment between them
\* and on neither node.
MidPoint == Pt((GridPoint(0).x + GridPoint(1).x) \div 2, GridPoint(0).y)

\* Pointer positions of the editor specification.
Points == {GridPoint(0), GridPoint(1), MidPoint}

Ids(n) == 0..(n - 1)

\* The vertex list 0..n-1 in ascending order.
IdList(n) == [k \in 1..n |-> k - 1]

Pairs(n) == {<<a, b>> : a \in Ids(n), b \in Ids(n)}

Arcs(n) == {q \in Pairs(n) : q[1] # q[2]}

\* All lists over S of length at most n.
RECURSIVE ListsUpTo(_, _)
ListsUpTo(S, n) ==
    IF n = 0 THEN {<< >>}
    ELSE ListsUpTo(S, n - 1) \cup
         {Append(l, e) : l \in {m \in ListsUpTo(S, n - 1) : Len(m) = n - 1}, e \in S}

\* An edge list as main() keeps it: no self-loop, no repeated pair, no 2-cycle
\* (the default graph, Random Graph and the sidebar's deletions give no other).
Oriented(l) ==
    \A i \in DOMAIN l :
        /\ l[i][1] # l[i][2]
        /\ \A j \in DOMAIN l : j # i => l[j] # l[i] /\ l[j] # <<l[i][2], l[i][1]>>

OrientedEdgeLists(n, len) == {l \in ListsUpTo(Arcs(n), len) : Oriented(l)}

\* What main() hands the loader: ids 0..n-1 and an oriented edge list.
LoaderInputs(n, len) ==
    {[nodes |-> IdList(n), edges |-> el, move_mode |-> FALSE] :
        el \in OrientedEdgeLists(n, len)}

InitInputs == UNION {LoaderInputs(n, MaxEdges) : n \in 0..MaxNodes}

\* Details a graphDataUpdate event may carry: what the loader would emit.
UpdateInputs ==
    {[nodes |-> IdList(2), edges |-> el, move_mode |-> m] :
        el \in {<< >>, <<<<0, 1>>, <<1, 0>>>>}, m \in BOOLEAN}

\* The canvas state once the script has run to its end: graphData as
\* loaded, labels recomputed by the initial updateSeymourStatus.
Loaded(gd) ==
    /\ graph_data = gd
    /\ analysis = analyze_seymour_vertices(DiGraphOf(gd.nodes, gd.edges))
    /\ seymour_vertices = get_seymour_vertices(DiGraphOf(gd.nodes, gd.edges))
    /\ phase = "canvas"
    /\ nodes = updateSeymourStatus(create_interactive_graph_editor(gd).nodes,
                                   create_interactive_graph_editor(gd).edges)
    /\ edges = create_interactive_graph_editor(gd).edges
    /\ moveMode = create_interactive_graph_editor(gd).move_mode
    /\ isDragging = FALSE
    /\ edgeMode = FALSE
    /\ startDragNode = NullNode
    /\ dragStart = Pt(0, 0)
    /\ rclick = NoRClick
    /\ sent = << >>
    /\ win = FALSE

Init == \E gd \in InitInputs : Loaded(gd)

(***************************************************************************)
(* Event handlers of the canvas script.                                    *)
(***************************************************************************)
\* The edges left by filter(e => e.from !== id && e.to !== id).
EdgesWithout(es, id) == SelectSeq(es, LAMBDA e : e.from # id /\ e.to # id)

\* mousedown, button 0: press on a node or on empty space.
MouseDownLeft(p) ==
    LET node == getNodeAt(nodes, p.x, p.y)
    IN  /\ phase = "canvas"
        /\ ~rclick.down
        /\ IF node # 0
           THEN /\ startDragNode' = LiveNode(node)
                /\ dragStart' = p
           ELSE /\ startDragNode' = NullNode
                /\ UNCHANGED dragStart
        /\ isDragging' = FALSE
        /\ sent' = << >>
        /\ win' = FALSE
        /\ UNCHANGED <<pyVars, nodes, edges, moveMode, edgeMode, rclick>>

\* mousedown, button 2: delete the node, else the edge, under the pointer.
\* Neither branch renumbers nor checks for a win.
MouseDownRight(p) ==
    LET node == getNodeAt(nodes, p.x, p.y)
        edge == getEdgeAt(nodes, edges, p.x, p.y)
    IN  /\ phase = "canvas"
        /\ ~rclick.down
        /\ rclick' = [down |-> TRUE, pos |-> p, nodes0 |-> nodes, edges0 |-> edges]
        /\ win' = FALSE
        /\ IF node # 0
           THEN /\ edges' = EdgesWithout(edges, nodes[node].id)
                /\ nodes' = updateSeymourStatus(RemoveAt(nodes, node),
                                                EdgesWithout(edges, nodes[node].id))
                /\ startDragNode' = RefAfterRemove(startDragNode, nodes, node)
                /\ sent' = <<graphUpdate(nodes', edges')>>
           ELSE IF edge # 0
           THEN /\ edges' = RemoveAt(edges, edge)
                /\ nodes' = updateSeymourStatus(nodes, RemoveAt(edges, edge))
                /\ sent' = <<graphUpdate(nodes', edges')>>
                /\ UNCHANGED startDragNode
           ELSE /\ sent' = << >>
                /\ UNCHANGED <<nodes, edges, startDragNode>>
        /\ UNCHANGED <<pyVars, moveMode, isDragging, edgeMode, dragStart>>

MutThresholdInclusive(p) ==
    Sq(p.x - dragStart.x) + Sq(p.y - dragStart.y) >= Sq(DRAG_THRESHOLD)

\* distanceMoved > DRAG_THRESHOLD
ExceedsThreshold(p) ==
    Sq(p.x - dragStart.x) + Sq(p.y - dragStart.y) > Sq(DRAG_THRESHOLD)

\* mousemove without the move branch: the dragged node stays where it is.
MutMoveWithoutFollow(p) ==
    /\ phase = "canvas"
    /\ ~rclick.down
    /\ isDragging' = IF startDragNode.kind # "null" /\ ~isDragging
                     THEN ExceedsThreshold(p) ELSE isDragging
    /\ edgeMode' = IF ~isDragging /\ isDragging' THEN ~moveMode ELSE edgeMode
    /\ sent' = << >>
    /\ win' = FALSE
    /\ UNCHANGED <<pyVars, nodes, edges, moveMode, startDragNode, dragStart, rclick>>

\* mousemove: start the drag beyond the threshold, noting in edgeMode the mode
\* it starts in; in move mode a dragged node follows the pointer.
MouseMove(p) ==
    /\ phase = "canvas"
    /\ ~rclick.down
    /\ isDragging' = IF startDragNode.kind # "null" /\ ~isDragging
                     THEN ExceedsThreshold(p) ELSE isDragging
    /\ edgeMode' = IF ~isDragging /\ isDragging' THEN ~moveMode ELSE edgeMode
    /\ nodes' = IF isDragging' /\ startDragNode.kind = "live" /\ moveMode
                THEN [nodes EXCEPT ![startDragNode.idx].x = p.x,
                                   ![startDragNode.idx].y = p.y]
                ELSE nodes
    /\ sent' = << >>
    /\ win' = FALSE
    /\ UNCHANGED <<pyVars, edges, moveMode, startDragNode, dragStart, rclick>>

MutAnyTarget(target) == TRUE

\* targetNode !== startDragNode, for a targetNode found in graphData.nodes.
OtherObject(target) == ~(startDragNode.kind = "live" /\ startDragNode.idx = target)

\* graphData.edges.find(edge => edge.from === a && edge.to === b), 0 if none.
FindEdge(es, a, b) == FirstIndex({i \in DOMAIN es : es[i].from = a /\ es[i].to = b})

MutIgnoreExisting(target) ==
    IF FindEdge(edges, nodes[target].id, StartId) # 0 THEN "reverse" ELSE "create"

MutNeverReverse(target) ==
    IF FindEdge(edges, StartId, nodes[target].id) # 0 THEN "exists" ELSE "create"

MutReverseFirst(target) ==
    IF FindEdge(edges, nodes[target].id, StartId) # 0 THEN "reverse"
    ELSE IF FindEdge(edges, StartId, nodes[target].id) # 0 THEN "exists"
    ELSE "create"

\* The connect branch of mouseup entered with a target: what it does.
ConnectOutcome(target) ==
    IF FindEdge(edges, StartId, nodes[target].id) # 0 THEN "exists"
    ELSE IF FindEdge(edges, nodes[target].id, StartId) # 0 THEN "reverse"
    ELSE "create"

\* The reverse branch done by removing the reverse edge and pushing the new one.
MutReverseByReplace(target) ==
    CASE ConnectOutcome(target) = "exists" -> edges
      [] ConnectOutcome(target) = "reverse" ->
            Append(RemoveAt(edges, FindEdge(edges, nodes[target].id, StartId)),
                   Edge(StartId, nodes[target].id))
      [] OTHER -> Append(edges, Edge(StartId, nodes[target].id))

\* graphData.edges after the connect branch of mouseup.
ConnectedEdges(target) ==
    CASE ConnectOutcome(target) = "exists" -> edges
      [] ConnectOutcome(target) = "reverse" ->
            [edges EXCEPT ![FindEdge(edges, nodes[target].id, StartId)] =
                              Edge(StartId, nodes[target].id)]
      [] OTHER -> Append(edges, Edge(StartId, nodes[target].id))

\* mouseup taking a pressed node for a dragged one, whatever isDragging says.
MutReleaseIgnoresDragFlag(p) ==
    LET targetNode == getNodeAt(nodes, p.x, p.y)
        dragging == startDragNode.kind # "null"
        connect == dragging /\ ~moveMode /\ targetNode # 0 /\ OtherObject(targetNode)
    IN  /\ phase = "canvas"
        /\ ~rclick.down
        /\ IF dragging /\ moveMode
           THEN /\ sent' = <<graphUpdate(nodes, edges)>>
                /\ win' = FALSE
                /\ UNCHANGED <<nodes, edges>>
           ELSE IF connect /\ ConnectOutcome(targetNode) # "exists"
           THEN /\ edges' = ConnectedEdges(targetNode)
                /\ nodes' = updateSeymourStatus(nodes, edges')
                /\ sent' = <<graphUpdate(nodes', edges')>>
                /\ win' = checkForWin(nodes')
           ELSE /\ sent' = << >>
                /\ win' = FALSE
                /\ UNCHANGED <<nodes, edges>>
        /\ isDragging' = FALSE
        /\ edgeMode' = FALSE
        /\ startDragNode' = NullNode
        /\ UNCHANGED <<pyVars, moveMode, dragStart, rclick>>

\* mouseup that resets isDragging alone and keeps the pressed node.
MutReleaseKeepsPress(p) ==
    LET targetNode == getNodeAt(nodes, p.x, p.y)
        dragging == isDragging /\ startDragNode.kind # "null"
        connect == dragging /\ ~moveMode /\ targetNode # 0 /\ OtherObject(targetNode)
    IN  /\ phase = "canvas"
        /\ ~rclick.down
        /\ IF dragging /\ moveMode
           THEN /\ sent' = <<graphUpdate(nodes, edges)>>
                /\ win' = FALSE
                /\ UNCHANGED <<nodes, edges>>
           ELSE IF connect /\ ConnectOutcome(targetNode) # "exists"
           THEN /\ edges' = ConnectedEdges(targetNode)
                /\ nodes' = updateSeymourStatus(nodes, edges')
                /\ sent' = <<graphUpdate(nodes', edges')>>
                /\ win' = checkForWin(nodes')
           ELSE /\ sent' = << >>
                /\ win' = FALSE
                /\ UNCHANGED <<nodes, edges>>
        /\ isDragging' = FALSE
        /\ edgeMode' = FALSE
        /\ startDragNode' = startDragNode
        /\ UNCHANGED <<pyVars, moveMode, dragStart, rclick>>

\* mouseup: finish the gesture and reset the drag state.
MouseUp(p) ==
    LET targetNode == getNodeAt(nodes, p.x, p.y)
        dragging == isDragging /\ startDragNode.kind # "null"
        connect == dragging /\ ~moveMode /\ targetNode # 0 /\ OtherObject(targetNode)
    IN  /\ phase = "canvas"
        /\ ~rclick.down
        /\ IF dragging /\ moveMode
           THEN /\ sent' = <<graphUpdate(nodes, edges)>>
                /\ win' = FALSE
                /\ UNCHANGED <<nodes, edges>>
           ELSE IF connect /\ ConnectOutcome(targetNode) # "exists"
           THEN /\ edges' = ConnectedEdges(targetNode)
                /\ nodes' = updateSeymourStatus(nodes, edges')
                /\ sent' = <<graphUpdate(nodes', edges')>>
                /\ win' = checkForWin(nodes')
           ELSE /\ sent' = << >>
                /\ win' = FALSE
                /\ UNCHANGED <<nodes, edges>>
        /\ isDragging' = FALSE
        /\ edgeMode' = FALSE
        /\ startDragNode' = NullNode
        /\ UNCHANGED <<pyVars, moveMode, dragStart, rclick>>

MutNewIdByCount(ns) == Len(ns)

\* Math.max(...graphData.nodes.map(n => n.id), -1) + 1
newId(ns) ==
    IF ns = << >> THEN 0
    ELSE (CHOOSE m \in {ns[k].id : k \in DOMAIN ns} :
             \A k \in DOMAIN ns : ns[k].id <= m) + 1

\* dblclick: a new node where no node is.  The browser delivers it after the
\* second mouseup, so the drag state is reset when it runs.
DblClick(p) ==
    /\ phase = "canvas"
    /\ ~rclick.down
    /\ startDragNode = NullNode
    /\ ~isDragging
    /\ win' = FALSE
    /\ IF getNodeAt(nodes, p.x, p.y) = 0
       THEN /\ nodes' = updateSeymourStatus(
                   Append(nodes, [id |-> newId(nodes), x |-> p.x, y |-> p.y,
                                  is_seymour |-> FALSE]), edges)
            /\ sent' = <<graphUpdate(nodes', edges)>>
       ELSE /\ sent' = << >>
            /\ UNCHANGED nodes
    /\ UNCHANGED <<pyVars, edges, moveMode, isDragging, edgeMode, startDragNode, dragStart, rclick>>

\* contextmenu: delete the node under the pointer and renumber, else delete
\* the edge under the pointer; check for a win after either.  It follows a
\* right button press at the place of that press, or comes alone.
ContextMenu(p) ==
    LET node == getNodeAt(nodes, p.x, p.y)
        edge == getEdgeAt(nodes, edges, p.x, p.y)
        keptNodes == RemoveAt(nodes, node)
        keptEdges == EdgesWithout(edges, nodes[node].id)
    IN  /\ phase = "canvas"
        /\ rclick.down => p = rclick.pos
        /\ rclick' = NoRClick
        /\ IF node # 0
           THEN /\ edges' = renumberEdgesOf(keptNodes, keptEdges)
                /\ nodes' = updateSeymourStatus(renumberNodesOf(keptNodes), edges')
                /\ startDragNode' = RefAfterRemove(startDragNode, nodes, node)
                /\ sent' = <<graphUpdate(nodes', edges')>>
                /\ win' = checkForWin(nodes')
           ELSE IF edge # 0
           THEN /\ edges' = RemoveAt(edges, edge)
                /\ nodes' = updateSeymourStatus(nodes, edges')
                /\ sent' = <<graphUpdate(nodes', edges')>>
                /\ win' = checkForWin(nodes')
                /\ UNCHANGED startDragNode
           ELSE /\ sent' = << >>
                /\ win' = FALSE
                /\ UNCHANGED <<nodes, edges, startDragNode>>
        /\ UNCHANGED <<pyVars, moveMode, isDragging, edgeMode, dragStart>>

\* toggleMoveMode
ToggleMoveMode ==
    /\ phase = "canvas"
    /\ ~rclick.down
    /\ moveMode' = ~moveMode
    /\ sent' = << >>
    /\ win' = FALSE
    /\ UNCHANGED <<pyVars, nodes, edges, isDragging, edgeMode, startDragNode, dragStart, rclick>>

\* The graphDataUpdate listener: graphData replaced by the event's detail,
\* the mode taken from it, labels recomputed.  The drag state is not touched,
\* so a pressed node stays referenced though graphData no longer holds it.
GraphDataUpdate(gd) ==
    /\ phase = "canvas"
    /\ ~rclick.down
    /\ edges' = create_interactive_graph_editor(gd).edges
    /\ nodes' = updateSeymourStatus(create_interactive_graph_editor(gd).nodes, edges')
    /\ moveMode' = create_interactive_graph_editor(gd).move_mode
    /\ startDragNode' = RefAfterReplace(startDragNode, nodes)
    /\ sent' = << >>
    /\ win' = FALSE
    /\ UNCHANGED <<pyVars, isDragging, edgeMode, dragStart, rclick>>

\* The bounds of the editor specification, on the state a step leads to.
WithinBounds ==
    /\ Len(nodes') <= MaxNodes
    /\ Len(edges') <= MaxEdges
    /\ \A k \in DOMAIN nodes' : nodes'[k].id <= MaxId

Next ==
    \/ \E p \in Points : MouseDownLeft(p)
    \/ \E p \in Points : MouseDownRight(p)
    \/ \E p \in Points : MouseMove(p)
    \/ \E p \in Points : MouseUp(p) /\ WithinBounds
    \/ \E p \in Points : DblClick(p) /\ WithinBounds
    \/ \E p \in Points : ContextMenu(p)
    \/ ToggleMoveMode
    \/ \E gd \in UpdateInputs : GraphDataUpdate(gd)

Spec == Init /\ [][Next]_vars

(***************************************************************************)
(* Connect gestures alone: a loaded graph, the mode left at connect, and   *)
(* left button presses, moves and releases.                                *)
(***************************************************************************)
ConnectInputs == LoaderInputs(ConnectNodes, MaxConnectEdges - 1)

\* Every loaded node's grid place, and the midpoint, where no node is.
ConnectPoints == {GridPoint(i) : i \in Ids(ConnectNodes)} \cup {MidPoint}

InitConnect == \E gd \in ConnectInputs : Loaded(gd)

NextConnect ==
    \/ \E p \in ConnectPoints : MouseDownLeft(p)
    \/ \E p \in ConnectPoints : MouseMove(p)
    \/ \E p \in ConnectPoints : MouseUp(p) /\ Len(edges') <= MaxConnectEdges

SpecConnect == InitConnect /\ [][NextConnect]_vars

(***************************************************************************)
(* The load alone: the Python side builds graph_json from graph_data, then *)
(* the script runs its initial updateSeymourStatus and render.             *)
(***************************************************************************)
\* The members of the set S of integers as an ascending list.
RECURSIVE AscendingList(_)
AscendingList(S) ==
    IF S = {} THEN << >>
    ELSE LET m == CHOOSE a \in S : \A b \in S : a <= b
         IN  <<m>> \o AscendingList(S \ {m})

\* Any vertex list in ascending order and any edge list over the same ids:
\* self-loops, repeated pairs, 2-cycles and edges to ids outside the vertex list.
PyInputs ==
    {[nodes |-> AscendingList(S), edges |-> el, move_mode |-> FALSE] :
        S \in SUBSET Ids(PyNodes), el \in ListsUpTo(Pairs(PyNodes), PyEdges)}

InitLoad ==
    \E gd \in PyInputs :
        /\ graph_data = gd
        /\ analysis = << >>
        /\ seymour_vertices = << >>
        /\ phase = "python"
        /\ nodes = << >>
        /\ edges = << >>
        /\ moveMode = FALSE
        /\ isDragging = FALSE
        /\ edgeMode = FALSE
        /\ startDragNode = NullNode
        /\ dragStart = Pt(0, 0)
        /\ rclick = NoRClick
        /\ sent = << >>
        /\ win = FALSE

\* create_interactive_graph_editor(graph_data), up to the graph_json it embeds.
CreateEditor ==
    /\ phase = "python"
    /\ phase' = "json"
    /\ analysis' = analyze_seymour_vertices(DiGraphOf(graph_data.nodes, graph_data.edges))
    /\ seymour_vertices' = get_seymour_vertices(DiGraphOf(graph_data.nodes, graph_data.edges))
    /\ nodes' = create_interactive_graph_editor(graph_data).nodes
    /\ edges' = create_interactive_graph_editor(graph_data).edges
    /\ moveMode' = create_interactive_graph_editor(graph_data).move_mode
    /\ UNCHANGED <<graph_data, isDragging, edgeMode, startDragNode, dragStart, rclick, sent, win>>

\* The script's top level: updateSeymourStatus(); render().
InitialRender ==
    /\ phase = "json"
    /\ phase' = "canvas"
    /\ nodes' = updateSeymourStatus(nodes, edges)
    /\ UNCHANGED <<graph_data, analysis, seymour_vertices, edges, moveMode, isDragging, edgeMode,
                   startDragNode, dragStart, rclick, sent, win>>

NextLoad == CreateEditor \/ InitialRender

SpecLoad == InitLoad /\ [][NextLoad]_vars

(***************************************************************************)
(* Right-clicks on the session's initial graph: main() starts a session    *)
(* with vertices 0..3 and edges (0,1), (1,2), (2,0), (1,3), the loader     *)
(* lays them out on the grid, and the user deletes by right button presses *)
(* and contextmenu events.                                                 *)
(***************************************************************************)
ExampleGraph ==
    [nodes |-> <<0, 1, 2, 3>>,
     edges |-> <<<<0, 1>>, <<1, 2>>, <<2, 0>>, <<1, 3>>>>,
     move_mode |-> FALSE]

\* The grid places of the four vertices, and the midpoint of the first two.
ExamplePoints == {GridPoint(i) : i \in Ids(Len(ExampleGraph.nodes))} \cup {MidPoint}

InitExample == Loaded(ExampleGraph)

NextExample ==
    \/ \E p \in ExamplePoints : MouseDownRight(p)
    \/ \E p \in ExamplePoints : ContextMenu(p)

SpecExample == InitExample /\ [][NextExample]_vars

(***************************************************************************)
(* Left button gestures around the drag threshold: presses, moves and      *)
(* releases at the first grid place, at points exactly the threshold away  *)
(* from it, at a point just beyond, and at the second grid place; the      *)
(* session may be in either mode.                                          *)
(***************************************************************************)
ThresholdPoints ==
    {GridPoint(0),
     Pt(GridPoint(0).x + DRAG_THRESHOLD, GridPoint(0).y),
     Pt(GridPoint(0).x + 6, GridPoint(0).y + 8),
     Pt(GridPoint(0).x + DRAG_THRESHOLD + 1, GridPoint(0).y),
     GridPoint(1)}

InitThreshold ==
    \E gd \in LoaderInputs(2, 1) : \E m \in BOOLEAN :
        Loaded([gd EXCEPT !.move_mode = m])

NextThreshold ==
    \/ \E p \in ThresholdPoints : MouseDownLeft(p)
    \/ \E p \in ThresholdPoints : MouseMove(p)
    \/ \E p \in ThresholdPoints : MouseUp(p)

SpecThreshold == InitThreshold /\ [][NextThreshold]_vars

(***************************************************************************)
(* Hit testing: two joined vertices in move mode, so that a drag puts a    *)
(* vertex on any point of HitPoints, and presses and right-clicks at those *)
(* points: the grid places, a point OffGrid and a point Probe at distance  *)
(* exactly EDGE_TOLERANCE from the segment from the first grid place to    *)
(* OffGrid, and a point Beyond on the line through the grid places, past   *)
(* the second one.                                                         *)
(***************************************************************************)
OffGrid == Pt(GridPoint(0).x + 15, GridPoint(0).y + 112)

Probe == Pt(GridPoint(0).x + 20, GridPoint(0).y + 74)

Beyond == Pt(GridPoint(1).x + nodeRadius + 5, GridPoint(1).y)

HitPoints == {GridPoint(0), GridPoint(1), OffGrid, Probe, Beyond}

InitHit == Loaded([nodes |-> IdList(2), edges |-> <<<<0, 1>>>>, move_mode |-> TRUE])

NextHit ==
    \/ \E p \in HitPoints : MouseDownLeft(p)
    \/ \E p \in HitPoints : MouseMove(p)
    \/ \E p \in HitPoints : MouseUp(p)
    \/ \E p \in HitPoints : MouseDownRight(p)
    \/ \E p \in HitPoints : ContextMenu(p)

SpecHit == InitHit /\ [][NextHit]_vars

(***************************************************************************)
(* The sidebar's delete-node button, on the session's vertex list and edge *)
(* list: the edges at the vertex and the vertex are filtered out, then     *)
(* old_to_new ranks the sorted survivors and both lists are rewritten.     *)
(***************************************************************************)
old_to_new(graph_nodes, old_node) ==
    Cardinality({k \in DOMAIN graph_nodes : graph_nodes[k] < old_node})

delete_node(graph_nodes, graph_edges, node) ==
    LET kept_edges == SelectSeq(graph_edges, LAMBDA edge : edge[1] # node /\ edge[2] # node)
        kept_nodes == SelectSeq(graph_nodes, LAMBDA n : n # node)
    IN  [nodes |-> [k \in DOMAIN kept_nodes |-> k - 1],
         edges |-> [k \in DOMAIN kept_edges |->
                       <<old_to_new(kept_nodes, kept_edges[k][1]),
                         old_to_new(kept_nodes, kept_edges[k][2])>>]]

(***************************************************************************)
(* Canvas events alone, from the empty canvas or from the session's        *)
(* initial graph, the mode left at connect: left presses, moves, releases, *)
(* double-clicks, right button presses and contextmenu events at the first *)
(* two grid places.                                                        *)
(***************************************************************************)
EmptyCanvas == [nodes |-> << >>, edges |-> << >>, move_mode |-> FALSE]

CanvasPoints == {GridPoint(0), GridPoint(1)}

InitCanvas == Loaded(EmptyCanvas) \/ Loaded(ExampleGraph)

CanvasBounds ==
    /\ Len(nodes') <= MaxCanvasNodes
    /\ Len(edges') <= MaxCanvasEdges
    /\ \A k \in DOMAIN nodes' : nodes'[k].id <= MaxCanvasId

NextCanvas ==
    \/ \E p \in CanvasPoints : MouseDownLeft(p)
    \/ \E p \in CanvasPoints : MouseMove(p)
    \/ \E p \in CanvasPoints : MouseUp(p) /\ CanvasBounds
    \/ \E p \in CanvasPoints : DblClick(p) /\ CanvasBounds
    \/ \E p \in CanvasPoints : MouseDownRight(p)
    \/ \E p \in CanvasPoints : ContextMenu(p)

SpecCanvas == InitCanvas /\ [][NextCanvas]_vars

(***************************************************************************)
(* Properties.                                                             *)
(***************************************************************************)
NodeIds == {nodes[k].id : k \in DOMAIN nodes}

\* C1: after any sequence of connect-mode gestures on a loaded edge list
\* without repeated pair, no two edges of graphData.edges have the same
\* ordered (from, to) pair.
C1_NoDuplicateEdge ==
    \A i \in DOMAIN edges : \A j \in DOMAIN edges :
        i # j => ~(edges[i].from = edges[j].from /\ edges[i].to = edges[j].to)

\* A release has just changed the edge list, which holds several edges.
C1_Witness == phase = "canvas" /\ sent # << >> /\ Len(edges) >= 2

\* C2: connect gestures never create a 2-cycle: from a loaded graph with no
\* pair (a,b), (b,a), no such pair exists after any sequence of them.
C2_NoTwoCycle ==
    \A i \in DOMAIN edges : \A j \in DOMAIN edges :
        ~(/\ edges[i].from # edges[i].to
          /\ edges[i].from = edges[j].to
          /\ edges[i].to = edges[j].from)

\* A release has just reversed an edge: the list changed by that release is as
\* long as the loaded one, and connect gestures never shorten it.
C2_Witness ==
    /\ phase = "canvas"
    /\ sent # << >>
    /\ Len(edges) = Len(graph_data.edges)
    /\ \E i \in DOMAIN edges :
          edges[i] = Edge(graph_data.edges[i][2], graph_data.edges[i][1])

\* The ids are exactly 0..n-1 and every edge endpoint is one of them.
Contiguous(ns, es) ==
    /\ {ns[k].id : k \in DOMAIN ns} = Ids(Len(ns))
    /\ \A i \in DOMAIN es : es[i].from \in Ids(Len(ns)) /\ es[i].to \in Ids(Len(ns))

\* C3: after a right-click on a vertex (the mousedown with button 2, then the
\* contextmenu at the same place) that deleted a vertex of a graph with ids
\* 0..n-1, the surviving ids are exactly 0..n-1 for the new n and every
\* surviving edge has both endpoints among them.
C3_IdContiguity ==
    [][(/\ rclick.down
        /\ ~rclick'.down
        /\ Contiguous(rclick.nodes0, rclick.edges0)
        /\ Len(nodes') < Len(rclick.nodes0))
       => Contiguous(nodes', edges')]_vars

\* C4: in every state reachable from a well-formed loaded graph by editor
\* events, both endpoints of every edge are ids of nodes of graphData.nodes.
C4_NoDanglingEdge ==
    \A i \in DOMAIN edges : edges[i].from \in NodeIds /\ edges[i].to \in NodeIds

\* The directed graph of graph_data, as the claims speak of it: its vertices
\* (listed, or an endpoint of an edge) and the out-neighbours of a vertex.
GVertices == Range(graph_data.nodes) \cup
             UNION {{graph_data.edges[i][1], graph_data.edges[i][2]} :
                        i \in DOMAIN graph_data.edges}

GHasEdge(a, b) == \E i \in DOMAIN graph_data.edges : graph_data.edges[i] = <<a, b>>

GFirst(v) == {w \in GVertices : GHasEdge(v, w)}

GSecond(v) == {w \in GVertices :
                  /\ \E u \in GFirst(v) : GHasEdge(u, w)
                  /\ w \notin GFirst(v)
                  /\ w # v}

\* C5: for every directed graph and every vertex v the analysis holds
\* first_neighbors = {w : (v,w) is an edge}, second_neighbors = {w : some
\* first neighbour u has the edge (u,w)} minus first_neighbors minus {v}, and
\* satisfies_property = (|second_neighbors| >= |first_neighbors|).
C5_ClassifierContract ==
    phase # "python" =>
        /\ DOMAIN analysis = GVertices
        /\ \A v \in GVertices :
              /\ analysis[v].first_neighbors = GFirst(v)
              /\ analysis[v].second_neighbors = GSecond(v)
              /\ analysis[v].satisfies_property =
                    (Cardinality(GSecond(v)) >= Cardinality(GFirst(v)))

\* Some vertex has a second neighbour, and two-hop reaches of it were dropped
\* for being a first neighbour and for being the vertex itself.
C5_Witness ==
    /\ phase # "python"
    /\ \E v \in GVertices :
          /\ analysis[v].second_neighbors # {}
          /\ \E u \in GFirst(v) : GHasEdge(u, v)
          /\ \E u \in GFirst(v) : \E w \in GFirst(v) : GHasEdge(u, w)

\* C6: a vertex with out-degree 0 has empty first- and second-neighbour sets
\* and is flagged, by the Python classifier and by the labels the canvas
\* recomputes with updateSeymourStatus.
C6_SinkIsFlagged ==
    /\ phase # "python" =>
          \A v \in GVertices :
              (\A w \in GVertices : ~GHasEdge(v, w)) =>
                  /\ analysis[v].first_neighbors = {}
                  /\ analysis[v].second_neighbors = {}
                  /\ analysis[v].out_degree = 0
                  /\ analysis[v].satisfies_property
    /\ phase = "canvas" =>
          \A k \in DOMAIN nodes :
              (\A i \in DOMAIN edges : edges[i].from # nodes[k].id) =>
                  nodes[k].is_seymour

\* The canvas has relabelled a graph that has edges and a vertex without
\* out-edge that other vertices point to.
C6_Witness ==
    /\ phase = "canvas"
    /\ \E k \in DOMAIN nodes :
          /\ \A i \in DOMAIN edges : edges[i].from # nodes[k].id
          /\ \E i \in DOMAIN edges : edges[i].to = nodes[k].id
          /\ nodes[k].id \in DOMAIN analysis
          /\ analysis[nodes[k].id].out_degree = 0

\* C7: for all graphs, self-loops and 2-cycles included, and all vertices v,
\* second_neighbors(v) is disjoint from first_neighbors(v) and holds no v.
C7_SecondDisjoint ==
    phase # "python" =>
        \A v \in DOMAIN analysis :
            /\ analysis[v].second_neighbors \cap analysis[v].first_neighbors = {}
            /\ v \notin analysis[v].second_neighbors

\* A vertex on a self-loop and on a 2-cycle whose two-hop reach holds itself
\* and one of its first neighbours.
C7_Witness ==
    /\ phase # "python"
    /\ \E v \in GVertices :
          /\ GHasEdge(v, v)
          /\ \E u \in GFirst(v) : u # v /\ GHasEdge(u, v)
          /\ \E u \in GFirst(v) : \E w \in GFirst(v) : w # v /\ GHasEdge(u, w)

\* The vertices the analysis flags.
GFlagged == {v \in GVertices : Cardinality(GSecond(v)) >= Cardinality(GFirst(v))}

\* First place of v in the order the loader's DiGraph met the vertices: the
\* endpoints of the edges in list order, source before target, then the
\* vertex list.
Met ==
    [k \in 1..(2 * Len(graph_data.edges) + Len(graph_data.nodes)) |->
        IF k <= 2 * Len(graph_data.edges)
        THEN graph_data.edges[(k + 1) \div 2][2 - (k % 2)]
        ELSE graph_data.nodes[k - 2 * Len(graph_data.edges)]]

FirstMet(v) == CHOOSE k \in DOMAIN Met : Met[k] = v /\ \A j \in 1..(k - 1) : Met[j] # v

\* C9 as stated: get_seymour_vertices returns exactly the flagged vertex ids
\* in ascending id order, for every graph as the loader builds it (here: for
\* every edge list whose endpoints are all in the vertex list).
C9_AscendingOrder ==
    (phase # "python" /\ GVertices = Range(graph_data.nodes)) =>
        seymour_vertices = AscendingList(GFlagged)

\* C9 amended: get_seymour_vertices returns exactly the flagged vertex ids,
\* each once, in the order the loader's DiGraph first met them (edge
\* endpoints in edge-list order, then the vertex list).
C9_InsertionOrder ==
    phase # "python" =>
        /\ Range(seymour_vertices) = GFlagged
        /\ \A i \in DOMAIN seymour_vertices : \A j \in DOMAIN seymour_vertices :
              i < j => FirstMet(seymour_vertices[i]) < FirstMet(seymour_vertices[j])

\* The returned list is not ascending: a flagged vertex precedes a smaller one.
C9_Witness ==
    /\ phase # "python"
    /\ \E i \in DOMAIN seymour_vertices : \E j \in DOMAIN seymour_vertices :
          i < j /\ seymour_vertices[i] > seymour_vertices[j]

\* The canvas graph as the claims speak of it: the vertex v of the edge list
\* es is flagged when its second neighbours are at least as many as its first.
CFirst(es, v) == {e.to : e \in {d \in Range(es) : d.from = v}}

CSecond(es, v) ==
    (UNION {CFirst(es, u) : u \in CFirst(es, v)} \ CFirst(es, v)) \ {v}

CFlagged(es, v) == Cardinality(CSecond(es, v)) >= Cardinality(CFirst(es, v))

\* Solved: a non-empty graph with no flagged vertex.
Solved(ns, es) ==
    /\ Len(ns) > 0
    /\ \A k \in DOMAIN ns : ~CFlagged(es, ns[k].id)

\* A non-empty graph none of whose nodes is labelled flagged.
LabelledSolved(ns) ==
    /\ Len(ns) > 0
    /\ \A k \in DOMAIN ns : ~ns[k].is_seymour

CheckedMutation ==
    /\ sent' # << >>
    /\ ~rclick'.down
    /\ (edges' # edges \/ Len(nodes') < Len(nodes))

StructuralMutation ==
    /\ sent' # << >>
    /\ (edges' # edges \/ Len(nodes') < Len(nodes))

\* C11: after every structural mutation made by the editor (edge created,
\* reversed or deleted, vertex deleted) the handler that made it raises the
\* solved signal when the graph it leaves is non-empty and has no flagged
\* vertex.
C11_WinCheckAfterMutation ==
    [][(StructuralMutation /\ Solved(nodes', edges')) => win']_vars

\* C12: the solved signal never fires when the graph has no vertices; in
\* particular not in the handler that deleted the last vertex.
C12_NoWinOnEmptyGraph == win => Len(nodes) > 0

\* The contextmenu handler has just deleted the last vertex, run the win
\* check and reported the empty graph.
C12_Witness ==
    /\ phase = "canvas"
    /\ nodes = << >>
    /\ sent = <<graphUpdate(<< >>, << >>)>>
    /\ ~rclick.down
    /\ startDragNode = NullNode
    /\ ~win

\* The release at p ends a connect gesture from a vertex v on another vertex
\* t while the edge (t,v) exists and the edge (v,t) does not.
ReleaseOnReverse(p) ==
    /\ isDragging
    /\ startDragNode.kind = "live"
    /\ ~moveMode
    /\ getNodeAt(nodes, p.x, p.y) # 0
    /\ nodes[getNodeAt(nodes, p.x, p.y)].id # StartId
    /\ \E i \in DOMAIN edges :
          edges[i] = Edge(nodes[getNodeAt(nodes, p.x, p.y)].id, StartId)
    /\ \A i \in DOMAIN edges :
          edges[i] # Edge(StartId, nodes[getNodeAt(nodes, p.x, p.y)].id)

\* C13: reverse on release: a connect gesture from v released on t, when (t,v)
\* exists and (v,t) does not, rewrites that edge in place to (v,t); the number
\* of edges and the place of every other edge in the list are unchanged.
C13_ReverseInPlace ==
    [][\A p \in ConnectPoints :
          (MouseUp(p) /\ ReleaseOnReverse(p)) =>
              /\ Len(edges') = Len(edges)
              /\ \E i \in DOMAIN edges :
                    /\ edges[i] = Edge(nodes[getNodeAt(nodes, p.x, p.y)].id, StartId)
                    /\ edges'[i] = Edge(StartId, nodes[getNodeAt(nodes, p.x, p.y)].id)
                    /\ \A j \in DOMAIN edges : j # i => edges'[j] = edges[j]]_vars

\* A release has just reversed the first of several loaded edges and left
\* every later edge at its place.
C13_Witness ==
    /\ phase = "canvas"
    /\ sent # << >>
    /\ Len(edges) = Len(graph_data.edges)
    /\ Len(edges) >= 2
    /\ edges[1] = Edge(graph_data.edges[1][2], graph_data.edges[1][1])
    /\ \A j \in 2..Len(edges) : edges[j] = Edge(graph_data.edges[j][1], graph_data.edges[j][2])

\* The right-click whose contextmenu this step delivers: the graph before the
\* button press, the vertex under the pointer then, and the rank of an id
\* among the surviving old ids.
ClickedNode == getNodeAt(rclick.nodes0, rclick.pos.x, rclick.pos.y)

ClickedId == rclick.nodes0[ClickedNode].id

Survivors == RemoveAt(rclick.nodes0, ClickedNode)

SurvivingEdges == SelectSeq(rclick.edges0, LAMBDA e : e.from # ClickedId /\ e.to # ClickedId)

RankOf(id) == Cardinality({k \in DOMAIN Survivors : Survivors[k].id < id})

HoldsExample ==
    /\ phase = "canvas"
    /\ graphUpdate(nodes, edges) = [nodes |-> ExampleGraph.nodes, edges |-> ExampleGraph.edges]

\* C15: on V={0,1,2,3}, E={(0,1),(1,2),(2,0),(1,3)} the classifier gives
\* vertex 1 first neighbours {2,3} and second neighbours {0}, so it is not
\* flagged, and vertex 0 first neighbours {1} and second neighbours {2,3}, so
\* it is flagged; the labels updateSeymourStatus sets on the canvas agree.
C15_ExampleClassification ==
    /\ graph_data = ExampleGraph =>
          /\ analysis[1].first_neighbors = {2, 3}
          /\ analysis[1].second_neighbors = {0}
          /\ ~analysis[1].satisfies_property
          /\ analysis[0].first_neighbors = {1}
          /\ analysis[0].second_neighbors = {2, 3}
          /\ analysis[0].satisfies_property
    /\ HoldsExample =>
          /\ ~nodes[2].is_seymour
          /\ nodes[1].is_seymour

\* The initial graph is on the canvas, loaded and relabelled, and the
\* analysis of the load covers its four vertices.
C15_Witness ==
    /\ HoldsExample
    /\ graph_data = ExampleGraph
    /\ DOMAIN analysis = {0, 1, 2, 3}
    /\ sent = << >>

LoadRank(v) == Cardinality({w \in Range(graph_data.nodes) : w < v})

C18_LabelConsistency ==
    phase = "canvas" =>
        \A k \in DOMAIN nodes : nodes[k].is_seymour = CFlagged(edges, nodes[k].id)

\* A handler has just changed the graph and relabelled it: some vertex is
\* flagged and some vertex is not.
C18_Witness ==
    /\ phase = "canvas"
    /\ sent # << >>
    /\ \E k \in DOMAIN nodes : nodes[k].is_seymour
    /\ \E k \in DOMAIN nodes : ~nodes[k].is_seymour

\* The vertex id list and the edge pair list of a graph.
IdsOf(ns) == [k \in DOMAIN ns |-> ns[k].id]

PairsOf(es) == [k \in DOMAIN es |-> <<es[k].from, es[k].to>>]

\* C19: every structural mutation by the editor (vertex added or deleted,
\* edge created, reversed or deleted) is followed, within the same handler,
\* by an emitted graph update whose vertex id list and edge pair list are
\* those of the graph the handler leaves; after a deletion that renumbers,
\* these are the renumbered ids and edges.
C19_UpdateAfterMutation ==
    [][(/\ (IdsOf(nodes') # IdsOf(nodes) \/ PairsOf(edges') # PairsOf(edges))
        /\ ~(\E gd \in UpdateInputs : GraphDataUpdate(gd)))
       => /\ sent' # << >>
          /\ sent'[Len(sent')].nodes = IdsOf(nodes')
          /\ sent'[Len(sent')].edges = PairsOf(edges')]_vars

\* The contextmenu handler has just deleted a vertex and renumbered: the
\* vertex loaded at the second grid place, with id 1, is left alone with
\* id 0, and the update reports the graph as renumbered.
C19_Witness ==
    /\ phase = "canvas"
    /\ ~rclick.down
    /\ Len(nodes) = 1
    /\ nodes[1].id = 0
    /\ Pt(nodes[1].x, nodes[1].y) = GridPoint(1)
    /\ sent = <<[nodes |-> <<0>>, edges |-> PairsOf(edges)]>>

ReleaseOnExisting(p) ==
    /\ isDragging
    /\ startDragNode.kind = "live"
    /\ ~moveMode
    /\ getNodeAt(nodes, p.x, p.y) # 0
    /\ getNodeAt(nodes, p.x, p.y) # startDragNode.idx
    /\ \E i \in DOMAIN edges :
          edges[i] = Edge(StartId, nodes[getNodeAt(nodes, p.x, p.y)].id)

\* C21: a connect gesture from v released on t when the edge (v,t) exists
\* leaves the vertex list and the edge list unchanged and emits no graph
\* update, also when the reverse edge (t,v) exists at the same time.
C21_DuplicateSuppressed ==
    [][\A p \in Points :
          (MouseUp(p) /\ ReleaseOnExisting(p)) =>
              /\ nodes' = nodes
              /\ edges' = edges
              /\ sent' = << >>]_vars

\* A connect gesture is dragging from a vertex v that is on a 2-cycle with
\* another vertex t: a release on t finds both (v,t) and (t,v).
C21_Witness ==
    /\ isDragging
    /\ ~moveMode
    /\ startDragNode.kind = "live"
    /\ ~rclick.down
    /\ \E k \in DOMAIN nodes :
          /\ k # startDragNode.idx
          /\ Pt(nodes[k].x, nodes[k].y) \in Points
          /\ \E i \in DOMAIN edges : edges[i] = Edge(StartId, nodes[k].id)
          /\ \E i \in DOMAIN edges : edges[i] = Edge(nodes[k].id, StartId)

\* max(a, 1)
AtLeastOne(a) == IF a > 1 THEN a ELSE 1

C23_DeletesOnlyVertexAndItsEdges ==
    [][(rclick.down /\ ~rclick'.down /\ ClickedNode # 0) =>
          /\ [k \in DOMAIN nodes' |-> Pt(nodes'[k].x, nodes'[k].y)] =
                [k \in DOMAIN Survivors |-> Pt(Survivors[k].x, Survivors[k].y)]
          /\ Len(edges') = Len(SurvivingEdges)
          /\ \A k \in DOMAIN SurvivingEdges :
                \/ edges'[k] = SurvivingEdges[k]
                \/ edges'[k] = Edge(RankOf(SurvivingEdges[k].from),
                                    RankOf(SurvivingEdges[k].to))]_vars

\* The right-click whose contextmenu this step delivers hit no vertex and hit
\* an edge of the graph as it was before the button press.
ClickedEdge ==
    IF ClickedNode # 0 THEN 0
    ELSE getEdgeAt(rclick.nodes0, rclick.edges0, rclick.pos.x, rclick.pos.y)

\* C24: one right-click at a point that hits no vertex and hits an edge
\* removes exactly one edge from the edge list; the vertex list, the vertex
\* ids and places, and every other edge are unchanged.
C24_DeletesOneEdge ==
    [][(rclick.down /\ ~rclick'.down /\ ClickedEdge # 0) =>
          /\ IdsOf(nodes') = IdsOf(rclick.nodes0)
          /\ [k \in DOMAIN nodes' |-> Pt(nodes'[k].x, nodes'[k].y)] =
                [k \in DOMAIN rclick.nodes0 |-> Pt(rclick.nodes0[k].x, rclick.nodes0[k].y)]
          /\ \E i \in DOMAIN rclick.edges0 : edges' = RemoveAt(rclick.edges0, i)]_vars

\* The edges of the graph before the button press that the pointer is within
\* tolerance of and that are not incident to the clicked vertex.
BystanderEdges ==
    {i \in DOMAIN rclick.edges0 :
        /\ HitsEdge(rclick.nodes0, rclick.edges0[i], rclick.pos.x, rclick.pos.y)
        /\ rclick.edges0[i].from # ClickedId
        /\ rclick.edges0[i].to # ClickedId}

\* C25: vertex hit-testing takes priority over edge hit-testing: when the
\* point of a right-click is within a vertex's radius and within tolerance of
\* an edge not incident to that vertex, the vertex is deleted and that edge
\* is not.
C25_VertexBeforeEdge ==
    [][(rclick.down /\ ~rclick'.down /\ ClickedNode # 0 /\ BystanderEdges # {}) =>
          /\ Len(nodes') = Len(rclick.nodes0) - 1
          /\ \A k \in DOMAIN nodes' :
                Pt(nodes'[k].x, nodes'[k].y) #
                    Pt(rclick.nodes0[ClickedNode].x, rclick.nodes0[ClickedNode].y)
          /\ \A i \in BystanderEdges : \E j \in DOMAIN edges' :
                \/ edges'[j] = rclick.edges0[i]
                \/ edges'[j] = Edge(RankOf(rclick.edges0[i].from),
                                    RankOf(rclick.edges0[i].to))]_vars

\* C26: a double-click at a point that hits no vertex appends one vertex, with
\* id max(existing ids) + 1 (0 when the graph is empty), at the click
\* position, and leaves every existing vertex, its position and every edge
\* unchanged; a double-click on a vertex changes nothing.
C26_DoubleClickAddsVertex ==
    [][\A p \in Points :
          DblClick(p) =>
              /\ edges' = edges
              /\ IF getNodeAt(nodes, p.x, p.y) # 0
                 THEN nodes' = nodes /\ sent' = << >>
                 ELSE /\ Len(nodes') = Len(nodes) + 1
                      /\ \A k \in DOMAIN nodes : nodes'[k] = nodes[k]
                      /\ Pt(nodes'[Len(nodes')].x, nodes'[Len(nodes')].y) = p
                      /\ \A k \in DOMAIN nodes : nodes[k].id < nodes'[Len(nodes')].id
                      /\ \/ nodes = << >> /\ nodes'[Len(nodes')].id = 0
                         \/ \E k \in DOMAIN nodes :
                               nodes'[Len(nodes')].id = nodes[k].id + 1]_vars

\* A double-click between the two grid places has just added the vertex 1 to
\* a graph that held the vertex 0 alone.
C26_Witness ==
    /\ phase = "canvas"
    /\ IdsOf(nodes) = <<0, 1>>
    /\ Pt(nodes[1].x, nodes[1].y) = GridPoint(0)
    /\ Pt(nodes[2].x, nodes[2].y) = MidPoint
    /\ sent = <<[nodes |-> <<0, 1>>, edges |-> PairsOf(edges)]>>
    /\ startDragNode = NullNode
    /\ ~moveMode

\* C27: during a move-mode drag of a vertex v, after every move event in
\* Dragging the position of v is the pointer position, and the gesture
\* (press, moves, release) changes nothing else: the vertex ids, the edge
\* list, the position of every other vertex and every label stay as they were.
\* A move-mode event is one that finds the mode flag at move.
C27_MoveDragFrame ==
    [][/\ \A p \in Points :
             (MouseMove(p) /\ moveMode /\ startDragNode.kind = "live" /\ isDragging') =>
                 /\ nodes' = [nodes EXCEPT ![startDragNode.idx] =
                                 [id |-> nodes[startDragNode.idx].id,
                                  x |-> p.x,
                                  y |-> p.y,
                                  is_seymour |-> nodes[startDragNode.idx].is_seymour]]
                 /\ edges' = edges
       /\ \A p \in Points :
             (MouseUp(p) /\ moveMode /\ startDragNode.kind = "live" /\ isDragging) =>
                 nodes' = nodes /\ edges' = edges
       /\ \A p \in Points :
             MouseDownLeft(p) => nodes' = nodes /\ edges' = edges]_vars

\* A move-mode gesture is dragging a vertex, which sits at the midpoint, where
\* the loader places none, next to another vertex.
C27_Witness ==
    /\ isDragging
    /\ moveMode
    /\ ~edgeMode
    /\ startDragNode.kind = "live"
    /\ Len(nodes) = 2
    /\ Pt(nodes[startDragNode.idx].x, nodes[startDragNode.idx].y) = MidPoint
    /\ edges # << >>

\* C28: a connect-mode drag changes the graph only at release: a move event
\* that finds the mode flag at connect changes no vertex position and no
\* edge, and a release of a connect-mode drag over no vertex, or over the
\* vertex it started on, leaves the vertex list and the edge list unchanged
\* and emits no graph update.
C28_ConnectDragFrame ==
    [][/\ \A p \in Points :
             (MouseMove(p) /\ ~moveMode) => nodes' = nodes /\ edges' = edges
       /\ \A p \in Points :
             (/\ MouseUp(p)
              /\ ~moveMode
              /\ isDragging
              /\ startDragNode.kind = "live"
              /\ getNodeAt(nodes, p.x, p.y) \in {0, startDragNode.idx}) =>
                 /\ nodes' = nodes
                 /\ edges' = edges
                 /\ sent' = << >>]_vars

\* A connect-mode gesture is dragging from a vertex of a graph with another
\* vertex and an edge, in a drag that started in connect mode.
C28_Witness ==
    /\ isDragging
    /\ ~moveMode
    /\ edgeMode
    /\ startDragNode.kind = "live"
    /\ ~rclick.down
    /\ Len(nodes) = 2
    /\ edges # << >>

\* C29: a press on a vertex followed by a release with no drag recorded, in
\* either mode and at any release point, changes neither the vertex list, the
\* positions nor the edge list.
C29_ClickChangesNothing ==
    [][/\ \A p \in Points :
             (MouseDownLeft(p) /\ getNodeAt(nodes, p.x, p.y) # 0) =>
                 nodes' = nodes /\ edges' = edges
       /\ \A p \in Points :
             (MouseUp(p) /\ startDragNode.kind # "null" /\ ~isDragging) =>
                 nodes' = nodes /\ edges' = edges]_vars

\* A vertex is pressed, no drag is recorded, and a release on the other
\* vertex would find a target to connect to.
C29_Witness ==
    /\ startDragNode.kind = "live"
    /\ ~isDragging
    /\ ~rclick.down
    /\ Len(nodes) = 2
    /\ Pt(nodes[3 - startDragNode.idx].x, nodes[3 - startDragNode.idx].y) \in Points
    /\ \A i \in DOMAIN edges : edges[i].from # StartId

\* The squared distance of p from the press position.
FromPressSq(p) == Sq(p.x - dragStart.x) + Sq(p.y - dragStart.y)

\* C30: the machine goes from Pressed(v) to Dragging only on a move event
\* whose straight-line distance from the press position is strictly greater
\* than the threshold of 10 pixels; move events within the threshold never
\* start a drag, and once Dragging no move event, within the threshold or
\* not, leaves Dragging: only a release or a new press does.
C30_DragThreshold ==
    [][/\ (~isDragging /\ isDragging') =>
             \E p \in ThresholdPoints :
                 /\ MouseMove(p)
                 /\ startDragNode.kind # "null"
                 /\ FromPressSq(p) > 10 * 10
       /\ \A p \in ThresholdPoints :
             (MouseMove(p) /\ ~isDragging /\ FromPressSq(p) <= 10 * 10) => ~isDragging'
       /\ \A p \in ThresholdPoints :
             (MouseMove(p) /\ isDragging) => isDragging'
       /\ (isDragging /\ ~isDragging') =>
             \E p \in ThresholdPoints : MouseUp(p) \/ MouseDownLeft(p)]_vars

\* A move-mode drag has brought the vertex to a point exactly the threshold
\* away from the press position, other than it, and is still Dragging.
C30_Witness ==
    /\ isDragging
    /\ moveMode
    /\ startDragNode.kind = "live"
    /\ FromPressSq(Pt(nodes[startDragNode.idx].x, nodes[startDragNode.idx].y)) = 10 * 10

\* C31: every pointer-up, whichever branch it takes (move, connect with
\* mutation, duplicate, cancelled, plain click, no gesture at all), leaves the
\* gesture state empty, isDragging false and no press vertex; a move event
\* that finds it empty changes nothing and starts no drag.
C31_ReleaseResetsGesture ==
    [][/\ \A p \in Points :
             MouseUp(p) => ~isDragging' /\ startDragNode' = NullNode
       /\ \A p \in Points :
             (MouseMove(p) /\ ~isDragging /\ startDragNode = NullNode) =>
                 /\ nodes' = nodes
                 /\ edges' = edges
                 /\ ~isDragging'
                 /\ startDragNode' = NullNode]_vars

\* The release of a move-mode drag has just reported the graph, with a vertex
\* left at the midpoint, and the gesture state is empty.
C31_Witness ==
    /\ phase = "canvas"
    /\ moveMode
    /\ ~isDragging
    /\ startDragNode = NullNode
    /\ sent = <<graphUpdate(nodes, edges)>>
    /\ Len(nodes) = Len(graph_data.nodes)
    /\ \E k \in DOMAIN nodes : Pt(nodes[k].x, nodes[k].y) = MidPoint

\* The vertex at index k is within the radius of (px, py): squared distance
\* at most nodeRadius squared.
WithinRadius(k, px, py) ==
    Sq(px - nodes[k].x) + Sq(py - nodes[k].y) <= Sq(nodeRadius)

\* (px, py) is within tol of the nearest point of the segment from a to b:
\* within tol of an endpoint, or, a and b being apart, its perpendicular foot
\* lies on the segment and it is within tol of the line.
NearSegment(px, py, a, b, tol) ==
    LET cx == b.x - a.x
        cy == b.y - a.y
        along == (px - a.x) * cx + (py - a.y) * cy
        cross == (px - a.x) * cy - (py - a.y) * cx
    IN  \/ Sq(px - a.x) + Sq(py - a.y) <= Sq(tol)
        \/ Sq(px - b.x) + Sq(py - b.y) <= Sq(tol)
        \/ /\ Sq(cx) + Sq(cy) > 0
           /\ along >= 0
           /\ along <= Sq(cx) + Sq(cy)
           /\ cross <= CROSS_CAP
           /\ cross >= -CROSS_CAP
           /\ Sq(cross) <= Sq(tol) * (Sq(cx) + Sq(cy))

\* The edge at index i has both endpoints among the vertices and (px, py) is
\* within the tolerance of its segment.
NearEdge(i, px, py) ==
    \E f \in DOMAIN nodes : \E t \in DOMAIN nodes :
        /\ nodes[f].id = edges[i].from
        /\ nodes[t].id = edges[i].to
        /\ \A k \in DOMAIN nodes :
              /\ nodes[k].id = edges[i].from => f <= k
              /\ nodes[k].id = edges[i].to => t <= k
        /\ NearSegment(px, py, nodes[f], nodes[t], EDGE_TOLERANCE)

\* C32: on integer coordinates a point hits a vertex exactly when its squared
\* distance to the vertex is at most the squared radius, and hits an edge
\* exactly when its distance to the nearest point of the edge's segment is at
\* most the tolerance.
C32_HitTestExact ==
    \A p \in HitPoints :
        /\ (getNodeAt(nodes, p.x, p.y) # 0) <=>
              (\E k \in DOMAIN nodes : WithinRadius(k, p.x, p.y))
        /\ (getEdgeAt(nodes, edges, p.x, p.y) # 0) <=>
              (\E i \in DOMAIN edges : NearEdge(i, p.x, p.y))

\* C33: the sidebar's delete-node button and a right-click on the canvas are
\* the same mutation: on a graph with vertex ids 0..n-1 and a vertex d of it,
\* a completed right-click on d leaves the set of vertex ids and the sequence
\* of edge pairs that delete_node yields.
C33_RightClickIsSidebarDelete ==
    [][(/\ rclick.down /\ ~rclick'.down /\ ClickedNode # 0
        /\ Contiguous(rclick.nodes0, rclick.edges0)) =>
          LET sidebar == delete_node(IdsOf(rclick.nodes0), PairsOf(rclick.edges0),
                                     ClickedId)
          IN  /\ {nodes'[k].id : k \in DOMAIN nodes'} = Range(sidebar.nodes)
              /\ PairsOf(edges') = sidebar.edges]_vars

C35_NeverSolved ==
    /\ (phase = "canvas" /\ nodes # << >>) =>
          \E k \in DOMAIN nodes : CFlagged(edges, nodes[k].id)
    /\ ~win

\* C36: vertex ids are unique: from the empty canvas or a loaded graph with
\* distinct ids, no two vertices of any graph reached by double-clicks,
\* right-click deletions (renumbering or not) and gestures have the same id.
C36_UniqueIds ==
    \A i \in DOMAIN nodes : \A j \in DOMAIN nodes :
        i # j => nodes[i].id # nodes[j].id

\* A double-click has just added a vertex to a graph whose ids had a gap left
\* by a deletion that did not renumber: the new id is past the vertex count.
C36_Witness ==
    /\ phase = "canvas"
    /\ Len(nodes) >= 2
    /\ sent = <<graphUpdate(nodes, edges)>>
    /\ nodes[Len(nodes)].id > Len(nodes) - 1
    /\ \A k \in 1..(Len(nodes) - 1) : nodes[k].id < nodes[Len(nodes)].id
    /\ Pt(nodes[Len(nodes)].x, nodes[Len(nodes)].y) \in CanvasPoints
    /\ startDragNode = NullNode

\* C37: whenever a gesture is in progress (a press vertex is recorded, the
\* drag begun or not) startDragNode is a vertex of the current graph, and
\* isDragging is true only while a press vertex is recorded, however the
\* left-button events interleave with right-click deletions and
\* graphDataUpdate events.
C37_PressVertexInGraph ==
    /\ startDragNode # NullNode =>
          /\ startDragNode.kind = "live"
          /\ startDragNode.idx \in DOMAIN nodes
    /\ isDragging => startDragNode # NullNode

\* The contextmenu this step delivers deletes the vertex at index d, so that
\* renumberNodes runs on the vertices and the edges that are left.
RenumberStep(d) ==
    \E p \in CanvasPoints : ContextMenu(p) /\ d = getNodeAt(nodes, p.x, p.y)

\* C38: renumberNodes is an order-preserving relabelling: it keeps the number
\* of vertices and of edges, takes vertex ids a < b to ids a' < b', changes
\* nothing on a graph whose ids are exactly 0..n-1, and running it again on
\* its result changes nothing.
C38_RenumberOrderPreserving ==
    [][\A d \in DOMAIN nodes :
          RenumberStep(d) =>
              LET ns == RemoveAt(nodes, d)
                  es == EdgesWithout(edges, nodes[d].id)
              IN  /\ Len(nodes') = Len(ns)
                  /\ Len(edges') = Len(es)
                  /\ \A i \in DOMAIN ns : \A j \in DOMAIN ns :
                        ns[i].id < ns[j].id => nodes'[i].id < nodes'[j].id
                  /\ Contiguous(ns, es) =>
                        /\ IdsOf(nodes') = IdsOf(ns)
                        /\ PairsOf(edges') = PairsOf(es)
                  /\ IdsOf(renumberNodesOf(nodes')) = IdsOf(nodes')
                  /\ renumberEdgesOf(nodes', edges') = edges']_vars

\* A contextmenu has deleted a vertex of the session's initial graph and the
\* vertex the loader placed third, with id 2, now carries the id 1.
C38_Witness ==
    /\ phase = "canvas"
    /\ rclick = NoRClick
    /\ sent = <<graphUpdate(nodes, edges)>>
    /\ Len(nodes) >= 2
    /\ edges # << >>
    /\ \E k \in DOMAIN nodes :
          Pt(nodes[k].x, nodes[k].y) = GridPoint(2) /\ nodes[k].id = 1
====
